---------------------------- MODULE Spec2Model ----------------------------
(***************************************************************************)
(* Differential-growth stepper (src/src/sim.rs, src/src/geometry.rs).      *)
(*                                                                         *)
(* Reals (f64) are fixed-point integers: the integer v stands for the real *)
(* v / SCALE.  Sums and differences are exact; a product or quotient of    *)
(* two reals is rounded to the nearest grid value; squared lengths and     *)
(* cross products are kept exactly, at resolution SCALE * SCALE.           *)
(* The generation counter is a u64 held as four 16-bit limbs, most         *)
(* significant first, so that it keeps its width.                          *)
(***************************************************************************)
EXTENDS Integers, Sequences, FiniteSets

(***************************************************************************)
(* Data model                                                              *)
(***************************************************************************)
\* a call of the public interface, with its arguments
Call(op, seed, radius, sides, params) ==
    [op |-> op, seed |-> seed, radius |-> radius, sides |-> sides,
     params |-> params]

\* glam::DVec2
Vec2(x, y) == [x |-> x, y |-> y]

\* struct SimParams
SimParams(edge_regularization_enabled, target_edge_length, edge_stiffness, repulsion_enabled, repulsion_radius, repulsion_strength, growth_enabled, growth_rate, split_enabled, split_length, jitter_enabled, jitter_strength) ==
    [edge_regularization_enabled |-> edge_regularization_enabled,
     target_edge_length |-> target_edge_length,
     edge_stiffness |-> edge_stiffness,
     repulsion_enabled |-> repulsion_enabled,
     repulsion_radius |-> repulsion_radius,
     repulsion_strength |-> repulsion_strength,
     growth_enabled |-> growth_enabled,
     growth_rate |-> growth_rate,
     split_enabled |-> split_enabled,
     split_length |-> split_length,
     jitter_enabled |-> jitter_enabled,
     jitter_strength |-> jitter_strength]

\* SimParams with the region-constraint fields that the driver sets
\* (src/src/main.rs, sim_params)
ConstrainedParams(params, constraint_enabled, constraint_shape, constraint_size, constraint_strength, constraint_falloff) ==
    [edge_regularization_enabled |-> params.edge_regularization_enabled,
     target_edge_length |-> params.target_edge_length,
     edge_stiffness |-> params.edge_stiffness,
     repulsion_enabled |-> params.repulsion_enabled,
     repulsion_radius |-> params.repulsion_radius,
     repulsion_strength |-> params.repulsion_strength,
     growth_enabled |-> params.growth_enabled,
     growth_rate |-> params.growth_rate,
     split_enabled |-> params.split_enabled,
     split_length |-> params.split_length,
     jitter_enabled |-> params.jitter_enabled,
     jitter_strength |-> params.jitter_strength,
     constraint_enabled |-> constraint_enabled,
     constraint_shape |-> constraint_shape,
     constraint_size |-> constraint_size,
     constraint_strength |-> constraint_strength,
     constraint_falloff |-> constraint_falloff]

\* StdRng: the seed and the number of values drawn so far
StdRng(seed, draws) == [seed |-> seed, draws |-> draws]

\* struct Simulation
Simulation(polygon, generation, rng) ==
    [polygon |-> polygon, generation |-> generation, rng |-> rng]

(***************************************************************************)
(* Fixed-point arithmetic standing for f64                                 *)
(***************************************************************************)
SCALE == 1000

Abs(a) == IF a < 0 THEN -a ELSE a

\* a / b rounded to the nearest integer, halves away from zero
RoundDiv(a, b) ==
    LET s == IF (a < 0) = (b < 0) THEN 1 ELSE -1
        p == Abs(a)
        q == Abs(b)
    IN  s * ((2 * p + q) \div (2 * q))

\* f64 multiplication and division
FMul(a, b) == RoundDiv(a * b, SCALE)
FDiv(a, b) == RoundDiv(a * SCALE, b)

RECURSIVE SqrtIter(_, _)
SqrtIter(n, x) ==
    LET y == (x + n \div x) \div 2
    IN  IF y >= x THEN x ELSE SqrtIter(n, y)

\* f64::sqrt of a value held at resolution SCALE * SCALE, result at SCALE
FSqrt(n) ==
    IF n <= 0 THEN 0
    ELSE LET r == SqrtIter(n, n)
         IN  IF n - r * r > r THEN r + 1 ELSE r

\* f64::ceil of the quotient a / b, as usize (b > 0, a >= 0)
CeilDiv(a, b) == (a + b - 1) \div b

(***************************************************************************)
(* Vec2 (glam::DVec2)                                                      *)
(***************************************************************************)
ZERO == Vec2(0, 0)
VAdd(a, b) == Vec2(a.x + b.x, a.y + b.y)
VSub(a, b) == Vec2(a.x - b.x, a.y - b.y)
VScale(a, s) == Vec2(FMul(a.x, s), FMul(a.y, s))
VDiv(a, s) == Vec2(FDiv(a.x, s), FDiv(a.y, s))
length_squared(a) == a.x * a.x + a.y * a.y
length(a) == FSqrt(length_squared(a))
distance(a, b) == length(VSub(a, b))
lerp(a, b, t) == VAdd(a, VScale(VSub(b, a), t))

\* 0-based indexing of a Vec / slice
At(s, i) == s[i + 1]

(***************************************************************************)
(* u64 as four 16-bit limbs                                                *)
(***************************************************************************)
LIMB == 65536
U64_ZERO == <<0, 0, 0, 0>>
U64_MAX == <<LIMB - 1, LIMB - 1, LIMB - 1, LIMB - 1>>

\* g + 1 modulo 2^64
RECURSIVE IncFrom(_, _)
IncFrom(g, k) ==
    IF k = 0 THEN g
    ELSE IF g[k] = LIMB - 1 THEN IncFrom([g EXCEPT ![k] = 0], k - 1)
    ELSE [g EXCEPT ![k] = g[k] + 1]
wrapping_inc(g) == IncFrom(g, Len(g))

\* u64::saturating_add(self, 1)
saturating_add_wraps(g) == wrapping_inc(g)
saturating_add(g) == IF g = U64_MAX THEN U64_MAX ELSE wrapping_inc(g)

(***************************************************************************)
(* State.  sims holds two Simulation values, "a" and "b", constructed with *)
(* the same seed; every call made on "a" is afterwards made on "b" with    *)
(* the same arguments.  call is the most recent call on "a", pre the value *)
(* of "a" before it, replayed whether "b" has made that call too, calls    *)
(* the number of calls made on "a".                                        *)
(***************************************************************************)
VARIABLES sims, call, pre, replayed, calls

vars == <<sims, call, pre, replayed, calls>>

(***************************************************************************)
(* StdRng                                                                  *)
(***************************************************************************)
seed_from_u64(seed) == StdRng(seed, 0)

\* the k-th value of the stream of a seed, uniform in [-1.0, 1.0)
Sample(seed, k) == ((seed * 7919 + k * 729 + 345) % (2 * SCALE)) - SCALE

\* self.rng.gen_range(-1.0..1.0): the value drawn
gen_range_shared(rng) == Sample(rng.seed, rng.draws + sims.a.rng.draws)
gen_range(rng) == Sample(rng.seed, rng.draws)


(***************************************************************************)
(* Polygon                                                                 *)
(***************************************************************************)
\* (cos, sin) of TAU * i / sides, for i in 0 .. sides - 1
UnitCircle ==
    <<  <<Vec2(1000, 0)>>,
        <<Vec2(1000, 0), Vec2(-1000, 0)>>,
        <<Vec2(1000, 0), Vec2(-500, 866), Vec2(-500, -866)>>,
        <<Vec2(1000, 0), Vec2(0, 1000), Vec2(-1000, 0), Vec2(0, -1000)>>,
        <<Vec2(1000, 0), Vec2(309, 951), Vec2(-809, 588), Vec2(-809, -588),
          Vec2(309, -951)>>,
        <<Vec2(1000, 0), Vec2(500, 866), Vec2(-500, 866), Vec2(-1000, 0),
          Vec2(-500, -866), Vec2(500, -866)>> >>

ngon_vertices(radius, sides) ==
    [k \in 1..sides |->
        Vec2(FMul(radius, UnitCircle[sides][k].x),
             FMul(radius, UnitCircle[sides][k].y))]

\* Polygon::regular_ngon
regular_ngon_from_two(radius, sides) ==
    IF sides < 2 \/ radius <= 0 THEN <<>> ELSE ngon_vertices(radius, sides)
regular_ngon(radius, sides) ==
    IF sides < 3 \/ radius <= 0 THEN <<>> ELSE ngon_vertices(radius, sides)

(***************************************************************************)
(* Simulation                                                              *)
(***************************************************************************)
\* Simulation::new
new(seed) == Simulation(<<>>, U64_ZERO, seed_from_u64(seed))

\* Simulation::reset_seed
reset_seed(self, seed) == [self EXCEPT !.rng = seed_from_u64(seed)]

\* Simulation::rebuild_polygon
rebuild_polygon_appends(self, radius, sides) ==
    [self EXCEPT !.polygon = @ \o regular_ngon(radius, sides),
                 !.generation = U64_ZERO]
rebuild_polygon(self, radius, sides) ==
    [self EXCEPT !.polygon = regular_ngon(radius, sides),
                 !.generation = U64_ZERO]

(***************************************************************************)
(* Simulation::step, kernel by kernel                                      *)
(***************************************************************************)
\* 0.5
HALF == SCALE \div 2
\* 1e-12 and 1e-18 on the grid
EPS_LEN == 0
EPS_DIST_SQ == 0

\* the correction of the edge from i to (i + 1) % n, ZERO when it is skipped
correction(i, positions, params) ==
    LET n == Len(positions)
        j == (i + 1) % n
        d == VSub(At(positions, j), At(positions, i))
        len == length(d)
        dir == VDiv(d, len)
        error == len - params.target_edge_length
    IN  IF len > EPS_LEN
        THEN VScale(dir, FMul(FMul(error, params.edge_stiffness), HALF))
        ELSE ZERO

\* what the edge-spring loop adds to delta[i]: delta[i] += correction on the
\* edge leaving i, delta[j] -= correction on the edge arriving at i
spring_delta_same_sign(i, positions, params) ==
    LET n == Len(positions)
    IN  VAdd(correction(i, positions, params),
             correction((i + n - 1) % n, positions, params))
spring_delta(i, positions, params) ==
    LET n == Len(positions)
    IN  VSub(correction(i, positions, params),
             correction((i + n - 1) % n, positions, params))

\* are_neighbors
are_neighbors_no_wrap(i, j, n) ==
    IF n < 2 \/ i = j THEN TRUE
    ELSE j = i + 1 \/ j = i - 1
are_neighbors(i, j, n) ==
    IF n < 2 \/ i = j THEN TRUE
    ELSE LET next_i == (i + 1) % n
             prev_i == (i + n - 1) % n
         IN  j = next_i \/ j = prev_i

\* the push of the pair i < j, ZERO when the pair is skipped
pair_push(i, j, positions, params) ==
    LET n == Len(positions)
        radius_sq == params.repulsion_radius * params.repulsion_radius
        d == VSub(At(positions, j), At(positions, i))
        dist_sq == length_squared(d)
        dist == FSqrt(dist_sq)
        dir == VDiv(d, dist)
        proximity == SCALE - FDiv(dist, params.repulsion_radius)
        mag == FMul(params.repulsion_strength, proximity)
    IN  IF are_neighbors(i, j, n) THEN ZERO
        ELSE IF dist_sq <= EPS_DIST_SQ \/ dist_sq >= radius_sq THEN ZERO
        ELSE VScale(dir, FMul(mag, HALF))

\* what the pair of v and w adds to delta[v]: delta[i] -= push for the
\* smaller index i of the pair, delta[j] += push for the larger index j
push_on(v, w, positions, params) ==
    IF v < w THEN VSub(ZERO, pair_push(v, w, positions, params))
    ELSE IF w < v THEN pair_push(w, v, positions, params)
    ELSE ZERO

\* what the repulsion loops add to delta[v] over the pairs with lo..hi-1;
\* the sum is exact, so it is taken by halves to keep the evaluation shallow
RECURSIVE repulsion_range(_, _, _, _, _)
repulsion_range(v, lo, hi, positions, params) ==
    IF lo >= hi THEN ZERO
    ELSE IF hi = lo + 1 THEN push_on(v, lo, positions, params)
    ELSE LET mid == (lo + hi) \div 2
         IN  VAdd(repulsion_range(v, lo, mid, positions, params),
                  repulsion_range(v, mid, hi, positions, params))

\* what the repulsion loops add to delta[v], over the pairs with w, w + 1, ...
repulsion_delta(v, w, positions, params) ==
    repulsion_range(v, w, Len(positions), positions, params)

\* signed_area, at resolution SCALE * SCALE
RECURSIVE area_range(_, _, _)
area_range(points, lo, hi) ==
    LET n == Len(points)
        a == At(points, lo)
        b == At(points, (lo + 1) % n)
        mid == (lo + hi) \div 2
    IN  IF lo >= hi THEN 0
        ELSE IF hi = lo + 1 THEN a.x * b.y - b.x * a.y
        ELSE area_range(points, lo, mid) + area_range(points, mid, hi)

area_sum(points, i) == area_range(points, i, Len(points))

signed_area(points) ==
    IF Len(points) < 3 THEN 0 ELSE RoundDiv(area_sum(points, 0), 2)

\* outward_sign of the growth kernel
outward_sign(area) == IF area >= 0 THEN -1 ELSE 1

\* what the growth loop adds to delta[i]
growth_delta(i, positions, params, sign) ==
    LET n == Len(positions)
        prev == At(positions, (i + n - 1) % n)
        next == At(positions, (i + 1) % n)
        tangent == VSub(next, prev)
        len == length(tangent)
        dir == VDiv(tangent, len)
        normal == Vec2(dir.y * sign, (-dir.x) * sign)
    IN  IF len <= EPS_LEN THEN ZERO
        ELSE VScale(normal, params.growth_rate)

\* self.rng after k draws
advance(rng, k) == [rng EXCEPT !.draws = @ + k]

\* the jitter of one vertex: jx is drawn first, then jy
jitter_y_first(rng, strength) ==
    Vec2(FMul(gen_range(advance(rng, 1)), strength), FMul(gen_range(rng), strength))
jitter_of(rng, strength) ==
    Vec2(FMul(gen_range(rng), strength), FMul(gen_range(advance(rng, 1)), strength))

\* what the jitter loop adds to delta[i]: vertices are visited in index
\* order, two draws each
jitter_delta(i, params, rng) == jitter_of(advance(rng, 2 * i), params.jitter_strength)

\* self.rng after the jitter loop over n vertices
jitter_rng(n, rng) == advance(rng, 2 * n)

\* which kernels run
edge_active(params) ==
    /\ params.edge_regularization_enabled
    /\ params.edge_stiffness > 0
    /\ params.target_edge_length > 0
repulsion_active(params) ==
    /\ params.repulsion_enabled
    /\ params.repulsion_strength > 0
    /\ params.repulsion_radius > 0
growth_active(params) == params.growth_enabled /\ params.growth_rate # 0
jitter_active(params) == params.jitter_enabled /\ params.jitter_strength > 0
split_active(params) == params.split_enabled /\ params.split_length > 0

\* the displacement field of the deterministic kernels
forces(positions, params) ==
    LET n == Len(positions)
        sign == outward_sign(signed_area(positions))
    IN  [k \in 1..n |->
            VAdd(VAdd(IF edge_active(params)
                      THEN spring_delta(k - 1, positions, params) ELSE ZERO,
                      IF repulsion_active(params)
                      THEN repulsion_delta(k - 1, 0, positions, params) ELSE ZERO),
                 IF growth_active(params)
                 THEN growth_delta(k - 1, positions, params, sign) ELSE ZERO)]

\* the displacement field with the jitter added
jittered(delta, params, rng) ==
    [k \in 1..Len(delta) |-> VAdd(delta[k], jitter_delta(k - 1, params, rng))]

\* *v += d for every vertex
apply_delta(vertices, delta) ==
    [k \in 1..Len(vertices) |-> VAdd(vertices[k], delta[k])]

\* the points inserted on the edge from a to b
split_points_inclusive(a, b, split_length) ==
    LET len == distance(a, b)
        segments == CeilDiv(len, split_length)
    IN  IF len > split_length /\ segments > 1
        THEN [k \in 1..segments |-> lerp(a, b, RoundDiv(k * SCALE, segments))]
        ELSE <<>>
split_points(a, b, split_length) ==
    LET len == distance(a, b)
        segments == CeilDiv(len, split_length)
    IN  IF len > split_length /\ segments > 1
        THEN [k \in 1..(segments - 1) |-> lerp(a, b, RoundDiv(k * SCALE, segments))]
        ELSE <<>>

\* what the remesh loop pushes for the edges lo..hi-1; the pieces are
\* concatenated by halves to keep the evaluation shallow
RECURSIVE remesh_range_both_ends(_, _, _, _)
remesh_range_both_ends(lo, hi, positions, split_length) ==
    LET n == Len(positions)
        a == At(positions, lo)
        b == At(positions, (lo + 1) % n)
        mid == (lo + hi) \div 2
    IN  IF lo >= hi THEN <<>>
        ELSE IF hi = lo + 1
        THEN (<<a>> \o split_points(a, b, split_length)) \o <<b>>
        ELSE remesh_range_both_ends(lo, mid, positions, split_length)
             \o remesh_range_both_ends(mid, hi, positions, split_length)
RECURSIVE remesh_range(_, _, _, _)
remesh_range(lo, hi, positions, split_length) ==
    LET n == Len(positions)
        a == At(positions, lo)
        b == At(positions, (lo + 1) % n)
        mid == (lo + hi) \div 2
    IN  IF lo >= hi THEN <<>>
        ELSE IF hi = lo + 1 THEN <<a>> \o split_points(a, b, split_length)
        ELSE remesh_range(lo, mid, positions, split_length)
             \o remesh_range(mid, hi, positions, split_length)

\* the remesh loop, from edge i on
remesh_open(i, positions, split_length) ==
    LET n == Len(positions)
    IN  IF i >= n THEN <<>>
        ELSE remesh_range(i, n - 1, positions, split_length)
             \o <<At(positions, n - 1)>>
remesh(i, positions, split_length) ==
    remesh_range(i, Len(positions), positions, split_length)

\* the split pass of step
split_pass(vertices, params) ==
    IF split_active(params) /\ Len(vertices) >= 2
    THEN remesh(0, vertices, params.split_length)
    ELSE vertices

\* step past its early return
step_body(self, params) ==
    LET positions == self.polygon
        n == Len(positions)
        det == forces(positions, params)
        delta == IF jitter_active(params)
                 THEN jittered(det, params, self.rng) ELSE det
        moved == apply_delta(self.polygon, delta)
    IN  Simulation(split_pass(moved, params),
                   saturating_add(self.generation),
                   IF jitter_active(params)
                   THEN jitter_rng(n, self.rng) ELSE self.rng)

\* Simulation::step
step_counts_when_empty(self, params) == step_body(self, params)
step(self, params) ==
    IF Len(self.polygon) = 0 THEN self ELSE step_body(self, params)

(***************************************************************************)
(* Region constraint.  The stepper that the driver (src/src/main.rs) is    *)
(* written against takes a region of constraint_shape and constraint_size  *)
(* centred at the origin and pushes the vertices outside it back toward    *)
(* its boundary; that kernel is modelled from section 4.7 of the           *)
(* specification, the region's geometry being the one the driver draws.    *)
(***************************************************************************)
SQRT3_HALF == 866

dot(a, b) == a.x * b.x + a.y * b.y
cross(a, b) == a.x * b.y - a.y * b.x
Min(a, b) == IF a <= b THEN a ELSE b
Max(a, b) == IF a >= b THEN a ELSE b

\* the corners of the triangular region, counter-clockwise from the apex
triangle_corners(size) ==
    <<Vec2(0, size),
      Vec2(-FMul(SQRT3_HALF, size), -FMul(HALF, size)),
      Vec2(FMul(SQRT3_HALF, size), -FMul(HALF, size))>>

\* is p in the region
inside(p, params) ==
    LET size == params.constraint_size
        T == triangle_corners(size)
    IN  CASE params.constraint_shape = "Circle" -> length(p) <= size
          [] params.constraint_shape = "Square" ->
                 Max(Abs(p.x), Abs(p.y)) <= size
          [] OTHER ->
                 \A e \in 1..3 :
                     cross(VSub(T[(e % 3) + 1], T[e]), VSub(p, T[e])) >= 0

\* the point of the segment from a to b nearest to p
nearest_on_segment(p, a, b) ==
    LET ab == VSub(b, a)
        t == RoundDiv(dot(VSub(p, a), ab), RoundDiv(length_squared(ab), SCALE))
    IN  lerp(a, b, Max(0, Min(SCALE, t)))

\* the nearer to p of the points c and d
nearer(p, c, d) == IF distance(p, d) < distance(p, c) THEN d ELSE c

\* the boundary point nearest to a vertex p outside the region
nearest_boundary_point(p, params) ==
    LET size == params.constraint_size
        T == triangle_corners(size)
    IN  CASE params.constraint_shape = "Circle" ->
                 VScale(p, FDiv(size, length(p)))
          [] params.constraint_shape = "Square" ->
                 Vec2(Max(-size, Min(size, p.x)), Max(-size, Min(size, p.y)))
          [] OTHER ->
                 nearer(p, nearer(p, nearest_on_segment(p, T[1], T[2]),
                                  nearest_on_segment(p, T[2], T[3])),
                        nearest_on_segment(p, T[3], T[1]))

\* the penetration depth of a vertex p outside the region
penetration(p, params) ==
    IF params.constraint_shape = "Circle"
    THEN length(p) - params.constraint_size
    ELSE distance(p, nearest_boundary_point(p, params))

\* the falloff factor
falloff(depth, params) ==
    LET ratio == FDiv(depth, params.constraint_size)
    IN  IF params.constraint_falloff = "Linear"
        THEN Min(SCALE, ratio)
        ELSE Min(SCALE, FMul(ratio, ratio))

\* the size of the push on a vertex p outside the region
push_size(p, params) ==
    LET depth == penetration(p, params)
    IN  FMul(FMul(depth, params.constraint_strength), falloff(depth, params))

\* what the constraint kernel adds to the displacement of a vertex at p
constraint_delta_outward(p, params) ==
    LET depth == penetration(p, params)
        toward == IF params.constraint_shape = "Circle"
                  THEN VDiv(VSub(ZERO, p), length(p))
                  ELSE VDiv(VSub(nearest_boundary_point(p, params), p), depth)
    IN  IF inside(p, params) \/ depth <= 0 THEN ZERO
        ELSE VSub(ZERO, VScale(toward, push_size(p, params)))
constraint_delta(p, params) ==
    LET depth == penetration(p, params)
        toward == IF params.constraint_shape = "Circle"
                  THEN VDiv(VSub(ZERO, p), length(p))
                  ELSE VDiv(VSub(nearest_boundary_point(p, params), p), depth)
    IN  IF inside(p, params) \/ depth <= 0 THEN ZERO
        ELSE VScale(toward, push_size(p, params))

constraint_active(params) == params.constraint_enabled

\* the displacement field of the deterministic kernels, the constraint
\* included
constrained_forces(positions, params) ==
    LET det == forces(positions, params)
    IN  [k \in 1..Len(positions) |->
            VAdd(det[k], IF constraint_active(params)
                         THEN constraint_delta(positions[k], params) ELSE ZERO)]

\* step with the constraint kernel between growth and jitter
step_constrained(self, params) ==
    LET positions == self.polygon
        n == Len(positions)
        det == constrained_forces(positions, params)
        delta == IF jitter_active(params)
                 THEN jittered(det, params, self.rng) ELSE det
        moved == apply_delta(self.polygon, delta)
    IN  IF n = 0 THEN self
        ELSE Simulation(split_pass(moved, params),
                        saturating_add(self.generation),
                        IF jitter_active(params)
                        THEN jitter_rng(n, self.rng) ELSE self.rng)

(***************************************************************************)
(* Inputs                                                                  *)
(***************************************************************************)
MaxCalls == 3

Seeds == {1, 2}

\* (radius, sides) of rebuild_polygon
Shapes ==
    {<<SCALE, 3>>, <<SCALE, 4>>, <<2 * SCALE, 4>>, <<0, 4>>, <<SCALE, 2>>,
     <<-SCALE, 5>>}

\* every kernel disabled
AllOff ==
    SimParams(FALSE, SCALE, HALF,
              FALSE, (5 * SCALE) \div 2, SCALE \div 10,
              FALSE, SCALE \div 100,
              FALSE, (4 * SCALE) \div 5,
              FALSE, SCALE \div 20)

Kernels(e, r, g, j, s) ==
    [AllOff EXCEPT !.edge_regularization_enabled = e,
                   !.repulsion_enabled = r,
                   !.growth_enabled = g,
                   !.jitter_enabled = j,
                   !.split_enabled = s]

\* the SimParams values passed to step
ParamChoices ==
    { AllOff,
      Kernels(TRUE, FALSE, FALSE, FALSE, FALSE),
      Kernels(TRUE, TRUE, FALSE, FALSE, FALSE),
      Kernels(FALSE, FALSE, TRUE, FALSE, FALSE),
      Kernels(FALSE, FALSE, FALSE, TRUE, FALSE),
      Kernels(FALSE, FALSE, FALSE, FALSE, TRUE),
      Kernels(TRUE, TRUE, TRUE, TRUE, TRUE),
      Kernels(FALSE, FALSE, TRUE, TRUE, TRUE),
      Kernels(TRUE, TRUE, FALSE, TRUE, FALSE),
      [Kernels(FALSE, FALSE, FALSE, TRUE, FALSE) EXCEPT !.jitter_strength = 0],
      [Kernels(TRUE, TRUE, FALSE, FALSE, TRUE) EXCEPT !.split_length = 0] }

\* the effect of a call on a Simulation
Perform(c, self) ==
    CASE c.op = "step" -> step(self, c.params)
      [] c.op = "rebuild_polygon" -> rebuild_polygon(self, c.radius, c.sides)
      [] c.op = "reset_seed" -> reset_seed(self, c.seed)
      [] OTHER -> self

(***************************************************************************)
(* The state machine                                                       *)
(***************************************************************************)
Init ==
    \E seed \in Seeds :
        /\ sims = [a |-> new(seed), b |-> new(seed)]
        /\ call = Call("new", seed, 0, 0, AllOff)
        /\ pre = new(seed)
        /\ replayed = TRUE
        /\ calls = 0

Issue(c) ==
    /\ replayed
    /\ calls < MaxCalls
    /\ sims' = [sims EXCEPT !.a = Perform(c, @)]
    /\ call' = c
    /\ pre' = sims.a
    /\ replayed' = FALSE
    /\ calls' = calls + 1

Step == \E params \in ParamChoices : Issue(Call("step", 0, 0, 0, params))

RebuildPolygon ==
    \E shape \in Shapes :
        Issue(Call("rebuild_polygon", 0, shape[1], shape[2], AllOff))

ResetSeed == \E seed \in Seeds : Issue(Call("reset_seed", seed, 0, 0, AllOff))

\* the second simulation makes the call the first one made
Replay ==
    /\ ~replayed
    /\ sims' = [sims EXCEPT !.b = Perform(call, @)]
    /\ replayed' = TRUE
    /\ UNCHANGED <<call, pre, calls>>

Next == Step \/ RebuildPolygon \/ ResetSeed \/ Replay

Spec == Init /\ [][Next]_vars

(***************************************************************************)
(* A simulation late in its life: new(seed), rebuild_polygon(1.0, 4) and   *)
(* then 2^64 - 2 steps with every kernel disabled, which leave the polygon *)
(* and the generator as rebuild_polygon left them.                         *)
(***************************************************************************)
Late(seed, generation) ==
    Simulation(regular_ngon(SCALE, 4), generation, seed_from_u64(seed))

LateSeed == CHOOSE seed \in Seeds : \A other \in Seeds : seed <= other

InitLate ==
    /\ sims = [a |-> Late(LateSeed, <<LIMB - 1, LIMB - 1, LIMB - 1, LIMB - 2>>),
               b |-> Late(LateSeed, <<LIMB - 1, LIMB - 1, LIMB - 1, LIMB - 2>>)]
    /\ call = Call("step", 0, 0, 0, AllOff)
    /\ pre = Late(LateSeed, <<LIMB - 1, LIMB - 1, LIMB - 1, LIMB - 3>>)
    /\ replayed = TRUE
    /\ calls = 0

SpecLate == InitLate /\ [][Next]_vars

(***************************************************************************)
(* Remeshing at a fine threshold: polygons of a few dozen vertices, driven *)
(* by the calls that decide what a second split pass does.                 *)
(***************************************************************************)
RemeshShapes == {<<SCALE, 3>>, <<2 * SCALE, 4>>, <<SCALE, 6>>}

SplitOnlyAt(split_length) ==
    [Kernels(FALSE, FALSE, FALSE, FALSE, TRUE) EXCEPT !.split_length = split_length]

RemeshParams ==
    { SplitOnlyAt(SCALE \div 5),
      SplitOnlyAt((4 * SCALE) \div 5),
      Kernels(TRUE, TRUE, TRUE, TRUE, TRUE) }

StepRemesh == \E params \in RemeshParams : Issue(Call("step", 0, 0, 0, params))

RebuildRemesh ==
    \E shape \in RemeshShapes :
        Issue(Call("rebuild_polygon", 0, shape[1], shape[2], AllOff))

NextRemesh == StepRemesh \/ RebuildRemesh \/ Replay

SpecRemesh == Init /\ [][NextRemesh]_vars

(***************************************************************************)
(* Repulsion on its own: polygons with adjacent, near, far and coincident  *)
(* pairs of vertices.                                                      *)
(***************************************************************************)
RepulsionShapes ==
    {<<SCALE, 2>>, <<SCALE, 3>>, <<SCALE, 4>>, <<0, 4>>, <<2 * SCALE, 5>>,
     <<SCALE, 6>>}

RepulsionParams ==
    { Kernels(FALSE, TRUE, FALSE, FALSE, FALSE),
      [Kernels(FALSE, TRUE, FALSE, FALSE, FALSE)
          EXCEPT !.repulsion_radius = (9 * SCALE) \div 5,
                 !.repulsion_strength = HALF],
      Kernels(FALSE, FALSE, FALSE, FALSE, TRUE) }

StepRepulsion ==
    \E params \in RepulsionParams : Issue(Call("step", 0, 0, 0, params))

RebuildRepulsion ==
    \E shape \in RepulsionShapes :
        Issue(Call("rebuild_polygon", 0, shape[1], shape[2], AllOff))

NextRepulsion == StepRepulsion \/ RebuildRepulsion \/ Replay

SpecRepulsion == Init /\ [][NextRepulsion]_vars

(***************************************************************************)
(* Steps under a region constraint                                         *)
(***************************************************************************)
ConstraintShapes == {<<HALF, 3>>, <<SCALE, 3>>, <<2 * SCALE, 4>>, <<2 * SCALE, 5>>}

ConstraintChoices ==
    { ConstrainedParams(AllOff, TRUE, "Circle", SCALE, HALF, "Linear"),
      ConstrainedParams(AllOff, TRUE, "Square", SCALE, HALF, "Linear"),
      ConstrainedParams(AllOff, TRUE, "Triangle", SCALE, HALF, "Linear"),
      ConstrainedParams(AllOff, TRUE, "Circle", (3 * SCALE) \div 2, SCALE \div 10, "Quadratic"),
      ConstrainedParams(AllOff, TRUE, "Square", (3 * SCALE) \div 2, SCALE \div 10, "Quadratic"),
      ConstrainedParams(AllOff, TRUE, "Triangle", SCALE, SCALE \div 10, "Quadratic"),
      ConstrainedParams(Kernels(FALSE, FALSE, TRUE, FALSE, FALSE), TRUE, "Circle", SCALE, HALF, "Linear"),
      ConstrainedParams(AllOff, FALSE, "Circle", SCALE, HALF, "Linear"),
      ConstrainedParams(AllOff, TRUE, "Square", SCALE, 0, "Linear") }

PerformConstrained(c, self) ==
    IF c.op = "step_constrained" THEN step_constrained(self, c.params)
    ELSE Perform(c, self)

IssueConstrained(c) ==
    /\ replayed
    /\ calls < MaxCalls
    /\ sims' = [sims EXCEPT !.a = PerformConstrained(c, @)]
    /\ call' = c
    /\ pre' = sims.a
    /\ replayed' = FALSE
    /\ calls' = calls + 1

StepConstrained ==
    \E params \in ConstraintChoices :
        IssueConstrained(Call("step_constrained", 0, 0, 0, params))

RebuildConstrained ==
    \E shape \in ConstraintShapes :
        IssueConstrained(Call("rebuild_polygon", 0, shape[1], shape[2], AllOff))

ReplayConstrained ==
    /\ ~replayed
    /\ sims' = [sims EXCEPT !.b = PerformConstrained(call, @)]
    /\ replayed' = TRUE
    /\ UNCHANGED <<call, pre, calls>>

NextConstrained == StepConstrained \/ RebuildConstrained \/ ReplayConstrained

SpecConstrained == Init /\ [][NextConstrained]_vars

(***************************************************************************)
(* Properties                                                              *)
(***************************************************************************)
A == sims.a
IsStep == call.op = "step"
Fresh == \E seed \in Seeds : pre = new(seed)
U64_ONE == <<0, 0, 0, 1>>

\* C1 as stated: a step on a freshly constructed simulation, whose polygon
\* is empty, leaves generation equal to 1 and the polygon empty.
C1_FreshStepCountsOne ==
    (IsStep /\ Fresh) => (A.generation = U64_ONE /\ A.polygon = <<>>)

\* C1, amended: a step on a freshly constructed simulation, whose polygon is
\* empty, leaves generation equal to 0 and the polygon empty.
C1_FreshStepLeavesZero ==
    (IsStep /\ Fresh) => (A.generation = U64_ZERO /\ A.polygon = <<>>)

C1_Witness == IsStep /\ Fresh /\ growth_active(call.params)

\* C2: a step on an empty polygon changes nothing: polygon, generation and
\* generator (seed and number of draws) are what they were before the call,
\* whatever the SimParams.
C2_EmptyStepIsNoOp ==
    (IsStep /\ pre.polygon = <<>>) =>
        /\ A.polygon = pre.polygon
        /\ A.generation = pre.generation
        /\ A.rng = pre.rng

C2_Witness ==
    IsStep /\ pre.polygon = <<>> /\ jitter_active(call.params)
           /\ split_active(call.params)

\* natural numbers as limbs, most significant first, of any length
RECURSIVE BigLess(_, _, _)
BigLess(g, h, k) ==
    IF k > Len(g) THEN FALSE
    ELSE IF g[k] # h[k] THEN g[k] < h[k]
    ELSE BigLess(g, h, k + 1)
BigLeq(g, h) == g = h \/ BigLess(g, h, 1)
BigMin(g, h) == IF BigLeq(g, h) THEN g ELSE h
\* a u64 widened by one limb, and its successor there (no wrap)
Wide(g) == <<0>> \o g
WideSucc(g) == IncFrom(Wide(g), Len(g) + 1)

\* C3: a step on a non-empty polygon takes generation from g to
\* min(g + 1, 2^64 - 1), whatever kernels are enabled; between two calls of
\* rebuild_polygon generation never decreases.
C3_GenerationSaturates ==
    /\ (IsStep /\ pre.polygon # <<>>) =>
           Wide(A.generation) = BigMin(WideSucc(pre.generation), Wide(U64_MAX))
    /\ (call.op \in {"step", "reset_seed"}) =>
           BigLeq(pre.generation, A.generation)

C3_Witness ==
    IsStep /\ pre.polygon # <<>> /\ pre.generation = U64_MAX
           /\ A.generation = U64_MAX

\* the vertex lies on the circle of the given radius, to one grid unit
OnCircle(v, radius) == Abs(length(v) - radius) <= 1

\* C4: rebuild_polygon(radius, sides), in any state, sets generation to 0 and
\* leaves exactly `sides` vertices, all on the circle of that radius, when
\* sides >= 3 and radius > 0, and the empty polygon when sides < 3 or
\* radius <= 0: nothing of the previous polygon is kept.
C4_RebuildReplaces ==
    (call.op = "rebuild_polygon") =>
        /\ A.generation = U64_ZERO
        /\ (call.sides >= 3 /\ call.radius > 0) =>
               /\ Len(A.polygon) = call.sides
               /\ \A k \in 1..Len(A.polygon) : OnCircle(A.polygon[k], call.radius)
        /\ (call.sides < 3 \/ call.radius <= 0) => A.polygon = <<>>

C4_Witness ==
    /\ call.op = "rebuild_polygon"
    /\ call.sides >= 3 /\ call.radius > 0
    /\ pre.generation # U64_ZERO
    /\ Len(pre.polygon) > call.sides

\* C5: in every reachable state the polygon of every simulation has no
\* vertex or at least three.
C5_VertexCount ==
    \A id \in {"a", "b"} :
        Len(sims[id].polygon) = 0 \/ Len(sims[id].polygon) >= 3

C5_Witness ==
    /\ IsStep /\ replayed
    /\ Len(pre.polygon) >= 3
    /\ Len(A.polygon) > Len(pre.polygon)

JitterOnly(params) ==
    /\ jitter_active(params)
    /\ ~edge_active(params) /\ ~repulsion_active(params)
    /\ ~growth_active(params) /\ ~split_active(params)

\* C7: a step draws 2 * n values when jitter_enabled and jitter_strength > 0,
\* n being the vertex count at the start of the step, and none otherwise,
\* whichever other kernels are enabled; vertex i (from 0) receives draw 2 * i
\* as x and draw 2 * i + 1 as y, each times jitter_strength.
C7_JitterDraws ==
    IsStep =>
        LET n == Len(pre.polygon)
            d == pre.rng.draws
            strength == call.params.jitter_strength
            on == call.params.jitter_enabled /\ strength > 0
        IN  /\ A.rng.seed = pre.rng.seed
            /\ A.rng.draws = d + (IF on THEN 2 * n ELSE 0)
            /\ JitterOnly(call.params) =>
                   \A i \in 0..(n - 1) :
                       At(A.polygon, i) =
                           VAdd(At(pre.polygon, i),
                                Vec2(FMul(Sample(pre.rng.seed, d + 2 * i), strength),
                                     FMul(Sample(pre.rng.seed, d + 2 * i + 1), strength)))

\* a jitter step with the other kernels and splitting enabled, which changes
\* the vertex count
C7_Witness ==
    /\ IsStep /\ jitter_active(call.params)
    /\ edge_active(call.params) /\ repulsion_active(call.params)
    /\ growth_active(call.params) /\ split_active(call.params)
    /\ Len(pre.polygon) >= 3
    /\ Len(A.polygon) > Len(pre.polygon)
    /\ pre.rng.draws > 0

\* the polygon is one that rebuild_polygon builds
IsRegularNgon(polygon) ==
    /\ polygon # <<>>
    /\ \E shape \in Shapes : polygon = regular_ngon(shape[1], shape[2])

GrowthOnly(params) ==
    /\ params.growth_enabled
    /\ ~params.edge_regularization_enabled /\ ~params.repulsion_enabled
    /\ ~params.jitter_enabled /\ ~params.split_enabled

\* C8 as stated: from a counter-clockwise regular n-gon, one step with only
\* growth enabled and growth_rate > 0 strictly increases the distance of
\* every vertex from the origin.
C8_GrowthMovesOutward ==
    (IsStep /\ GrowthOnly(call.params) /\ call.params.growth_rate > 0
            /\ IsRegularNgon(pre.polygon) /\ signed_area(pre.polygon) > 0) =>
        \A k \in 1..Len(pre.polygon) :
            length_squared(A.polygon[k]) > length_squared(pre.polygon[k])

RECURSIVE VSum(_, _)
VSum(vertices, k) ==
    IF k > Len(vertices) THEN ZERO
    ELSE VAdd(vertices[k], VSum(vertices, k + 1))

SpringAndRepulsionOnly(params) ==
    /\ params.edge_regularization_enabled /\ params.repulsion_enabled
    /\ ~params.growth_enabled /\ ~params.jitter_enabled
    /\ ~params.split_enabled

\* C9: in a step with edge regularization and repulsion enabled and growth,
\* jitter and splitting disabled, the displacements sum to the zero vector:
\* the vertex count and the sum of the vertex positions are unchanged.
C9_MomentumConserved ==
    (IsStep /\ SpringAndRepulsionOnly(call.params)) =>
        /\ Len(A.polygon) = Len(pre.polygon)
        /\ VSum(A.polygon, 1) = VSum(pre.polygon, 1)

\* such a step where a spring and a repulsion push both act, on a polygon
\* that an earlier step has made irregular
C9_Witness ==
    /\ IsStep /\ SpringAndRepulsionOnly(call.params)
    /\ pre.rng.draws > 0
    /\ \E i \in 0..(Len(pre.polygon) - 1) :
           correction(i, pre.polygon, call.params) # ZERO
    /\ \E i, j \in 0..(Len(pre.polygon) - 1) :
           i < j /\ pair_push(i, j, pre.polygon, call.params) # ZERO
    /\ A.polygon # pre.polygon

\* C10: after a step with split_enabled and split_length = L > 0 on a
\* polygon of at least 2 vertices, every edge of the resulting polygon, the
\* closing edge included, has length at most 2 * L.
C10_SplitEdgeBound ==
    (IsStep /\ call.params.split_enabled /\ call.params.split_length > 0
            /\ Len(pre.polygon) >= 2) =>
        LET n == Len(A.polygon)
        IN  \A i \in 0..(n - 1) :
                distance(At(A.polygon, i), At(A.polygon, (i + 1) % n))
                    <= 2 * call.params.split_length

\* a splitting step, with forces, that inserted points on an edge longer
\* than 2 * L
C10_Witness ==
    /\ IsStep /\ split_active(call.params) /\ growth_active(call.params)
    /\ Len(A.polygon) > Len(pre.polygon)
    /\ \E i \in 0..(Len(pre.polygon) - 1) :
           distance(At(pre.polygon, i),
                    At(pre.polygon, (i + 1) % Len(pre.polygon)))
               > 2 * call.params.split_length

SplitOnly(params) ==
    /\ params.split_enabled
    /\ ~params.edge_regularization_enabled /\ ~params.repulsion_enabled
    /\ ~params.growth_enabled /\ ~params.jitter_enabled

\* the length of the edge leaving vertex i, the closing edge included
EdgeLen(points, i) == distance(At(points, i), At(points, (i + 1) % Len(points)))

NoLongEdge(points, split_length) ==
    \A i \in 0..(Len(points) - 1) : EdgeLen(points, i) <= split_length

\* points is a regular n-gon after one split pass that inserted points
OnceSplit(points, params) ==
    \E shape \in RemeshShapes :
        LET ngon == regular_ngon(shape[1], shape[2])
        IN  points = split_pass(ngon, params) /\ points # ngon

\* C11 as stated: two consecutive steps with only splitting enabled and the
\* same threshold L yield the same polygon as one: the second step, taken on
\* what the first one made of a regular n-gon, leaves the polygon unchanged.
C11_TwoSplitsAsOne ==
    (IsStep /\ SplitOnly(call.params) /\ OnceSplit(pre.polygon, call.params)) =>
        A.polygon = pre.polygon

\* C11, amended: a step with only splitting enabled at threshold L on a
\* polygon none of whose edges exceeds L leaves the vertex sequence
\* unchanged, so a second split-only step at the same L changes nothing
\* whenever the first one left no edge longer than L.
C11_NoLongEdgeNoChange ==
    (IsStep /\ SplitOnly(call.params)
            /\ NoLongEdge(pre.polygon, call.params.split_length)) =>
        A.polygon = pre.polygon

\* a split-only step on what an earlier split pass made of an n-gon, with no
\* edge longer than L left
C11_Witness ==
    /\ IsStep /\ SplitOnly(call.params) /\ split_active(call.params)
    /\ OnceSplit(pre.polygon, call.params)
    /\ NoLongEdge(pre.polygon, call.params.split_length)
    /\ A.polygon = pre.polygon

ConstraintOnly(params) ==
    /\ params.constraint_enabled
    /\ ~params.edge_regularization_enabled /\ ~params.repulsion_enabled
    /\ ~params.growth_enabled /\ ~params.jitter_enabled
    /\ ~params.split_enabled

\* C12: in a step with the region constraint enabled, constraint_strength > 0
\* and no other kernel, a vertex inside the region (Circle, Square or
\* Triangle of constraint_size, centred at the origin) does not move, and a
\* vertex outside it, at a depth > 0, is displaced toward the region
\* boundary and never away from it: whenever depth * constraint_strength *
\* falloff does not round to zero, its displacement points at the nearest
\* boundary point and brings it closer to that point.
C12_ConstraintOneSided ==
    (call.op = "step_constrained" /\ ConstraintOnly(call.params)
        /\ call.params.constraint_strength > 0) =>
        /\ Len(A.polygon) = Len(pre.polygon)
        /\ \A k \in 1..Len(pre.polygon) :
               LET p == pre.polygon[k]
                   q == A.polygon[k]
                   c == nearest_boundary_point(p, call.params)
               IN  IF inside(p, call.params) THEN q = p
                   ELSE penetration(p, call.params) > 0 =>
                            /\ dot(VSub(q, p), VSub(c, p)) >= 0
                            /\ length_squared(VSub(q, c)) <= length_squared(VSub(p, c))
                            /\ push_size(p, call.params) > 0 =>
                                   /\ dot(VSub(q, p), VSub(c, p)) > 0
                                   /\ length_squared(VSub(q, c))
                                          < length_squared(VSub(p, c))

\* a constraint-only step on a polygon with a vertex inside the region and a
\* vertex outside it
C12_Witness ==
    /\ call.op = "step_constrained" /\ ConstraintOnly(call.params)
    /\ call.params.constraint_strength > 0
    /\ \E k \in 1..Len(pre.polygon) : inside(pre.polygon[k], call.params)
    /\ \E k \in 1..Len(pre.polygon) :
           /\ ~inside(pre.polygon[k], call.params)
           /\ A.polygon[k] # pre.polygon[k]

\* the polygon of the step under way after its displacements are applied,
\* before the split pass
Displaced ==
    LET det == forces(pre.polygon, call.params)
        delta == IF jitter_active(call.params)
                 THEN jittered(det, call.params, pre.rng) ELSE det
    IN  apply_delta(pre.polygon, delta)

\* the number of points that belong after vertex i: ceil(len / L) - 1 when
\* its outgoing edge has length len > L, none otherwise
InsertedAfter(points, i, split_length) ==
    LET len == EdgeLen(points, i)
    IN  IF len > split_length THEN CeilDiv(len, split_length) - 1 ELSE 0

\* the number of points that belong after the vertices lo..hi-1
RECURSIVE InsertedIn(_, _, _, _)
InsertedIn(points, lo, hi, split_length) ==
    IF lo >= hi THEN 0
    ELSE IF hi = lo + 1 THEN InsertedAfter(points, lo, split_length)
    ELSE LET mid == (lo + hi) \div 2
         IN  InsertedIn(points, lo, mid, split_length)
             + InsertedIn(points, mid, hi, split_length)

Splitting == split_active(call.params) /\ Len(pre.polygon) >= 2

\* C13: the split pass never deletes or reorders vertices. After a step with
\* splitting enabled (split_length = L > 0, at least 2 vertices), displaced
\* vertex i stands at index i plus the number of points inserted after the
\* vertices before it, so vertex 0 stays first and the cyclic order is kept;
\* exactly ceil(len / L) - 1 points follow a vertex whose outgoing edge has
\* length len > L and none follow any other, and they lie between that
\* vertex and the next; without splitting the displaced polygon is the
\* result. Hence no step decreases the vertex count.
C13_SplitKeepsVertices ==
    IsStep /\ Len(pre.polygon) > 0 =>
        LET P == Displaced
            n == Len(P)
            L == call.params.split_length
            V == A.polygon
        IN  /\ Len(V) >= Len(pre.polygon)
            /\ ~Splitting => V = P
            /\ Splitting =>
                   /\ Len(V) = n + InsertedIn(P, 0, n, L)
                   /\ V[1] = P[1]
                   /\ \A i \in 0..(n - 1) :
                          LET at == i + InsertedIn(P, 0, i, L)
                              m == InsertedAfter(P, i, L)
                          IN  /\ At(V, at) = At(P, i)
                              /\ \A k \in 1..m :
                                     At(V, at + k)
                                         = lerp(At(P, i), At(P, (i + 1) % n),
                                                RoundDiv(k * SCALE, m + 1))

\* a splitting step that moved the vertices, then inserted points after one
\* vertex and none after another
C13_Witness ==
    /\ IsStep /\ Splitting /\ Displaced # pre.polygon
    /\ \E i \in 0..(Len(pre.polygon) - 1) :
           InsertedAfter(Displaced, i, call.params.split_length) >= 1
    /\ \E i \in 0..(Len(pre.polygon) - 1) :
           InsertedAfter(Displaced, i, call.params.split_length) = 0
    /\ Len(A.polygon) > Len(pre.polygon)

RepulsionOnly(params) ==
    /\ params.repulsion_enabled
    /\ ~params.edge_regularization_enabled /\ ~params.growth_enabled
    /\ ~params.jitter_enabled /\ ~params.split_enabled

\* i and j are next to each other on the cycle of n vertices
Adjacent(i, j, n) == (j - i + n) % n = 1 \/ (i - j + n) % n = 1

\* the pair i < j is one the claim says is pushed: not adjacent, and at a
\* squared distance strictly between 1e-18 and repulsion_radius^2
Pushed(i, j, positions, params) ==
    LET dist_sq == length_squared(VSub(At(positions, j), At(positions, i)))
    IN  /\ i < j /\ ~Adjacent(i, j, Len(positions))
        /\ dist_sq > EPS_DIST_SQ
        /\ dist_sq < params.repulsion_radius * params.repulsion_radius

\* the push of a pushed pair i < j: dir * (strength * proximity * 0.5)
PushOf(i, j, positions, params) ==
    LET d == VSub(At(positions, j), At(positions, i))
        dist == length(d)
        proximity == SCALE - FDiv(dist, params.repulsion_radius)
    IN  VScale(VDiv(d, dist), FMul(FMul(params.repulsion_strength, proximity), HALF))

\* what the pushed pairs of v with lo..hi-1 displace v by, each pair once:
\* minus the push for the smaller index of the pair, plus it for the larger
RECURSIVE PushedSum(_, _, _, _, _)
PushedSum(v, lo, hi, positions, params) ==
    IF lo >= hi THEN ZERO
    ELSE IF hi = lo + 1
    THEN IF Pushed(v, lo, positions, params)
         THEN VSub(ZERO, PushOf(v, lo, positions, params))
         ELSE IF Pushed(lo, v, positions, params)
         THEN PushOf(lo, v, positions, params)
         ELSE ZERO
    ELSE LET mid == (lo + hi) \div 2
         IN  VAdd(PushedSum(v, lo, mid, positions, params),
                  PushedSum(v, mid, hi, positions, params))

\* C14: in a step with only repulsion enabled (strength and radius > 0), the
\* displacement of every vertex is the sum of the pushes of exactly the
\* pairs i < j that are not cyclically adjacent, the pair (0, n-1) counting
\* as adjacent, and whose squared distance lies strictly between 1e-18 and
\* repulsion_radius^2, each pair counted once; with 3 or fewer vertices no
\* vertex is displaced.
C14_RepulsionSkipsNeighbors ==
    (IsStep /\ RepulsionOnly(call.params) /\ repulsion_active(call.params)) =>
        LET P == pre.polygon
            n == Len(P)
        IN  /\ Len(A.polygon) = n
            /\ \A v \in 0..(n - 1) :
                   VSub(At(A.polygon, v), At(P, v))
                       = PushedSum(v, 0, n, P, call.params)
            /\ n <= 3 => A.polygon = P

\* a repulsion-only step that displaced a vertex while its wrap-around pair
\* (0, n-1) and another non-adjacent pair, out of range, were left alone
C14_Witness ==
    /\ IsStep /\ RepulsionOnly(call.params) /\ repulsion_active(call.params)
    /\ Len(pre.polygon) >= 4
    /\ A.polygon # pre.polygon
    /\ \E i, j \in 0..(Len(pre.polygon) - 1) :
           /\ i < j /\ ~Adjacent(i, j, Len(pre.polygon))
           /\ ~Pushed(i, j, pre.polygon, call.params)

=============================================================================
